---- MODULE Spec2Model ----
(***************************************************************************)
(* State-machine model of video_app/torrent_downloader.py: TorrentJob (one *)
(* worker thread per job) and TorrentManager (the lock-protected registry  *)
(* with add_job / list_jobs / delete_job / _job_finished).                 *)
(*                                                                         *)
(* Every Python statement that another thread can observe is one action.   *)
(* Thread-local statements are folded into the neighbouring shared access. *)
(***************************************************************************)
EXTENDS Integers, Sequences, FiniteSets, TLC

\* ------------------------------------------------------------------ bounds
\* number of add_job calls (one request thread and one job per call)
MaxJobs == 2
\* number of concurrent delete_job request threads
MaxDeleters == 1
\* total_wanted of the modelled torrent, in bytes
TotalWanted == 2
\* largest transfer rate the engine reports, in bytes per second
MaxRate == 1
\* largest size of the streamed file, in bytes
MaxFileSize == 3
\* longest Range header after its unit, in characters
MaxTail == 4
\* the read size of the streaming generators (8192 in the code), in bytes
ChunkSize == 2
\* most chunks one encoder process writes to its pipe
MaxOutput == 2
\* admin requests in flight at a time
MaxRequests == 2

Jobs == 1..MaxJobs
Requests == 1..MaxRequests
Deleters == 1..MaxDeleters
\* uuid4() values: two are drawn per add_job (temp directory, job id)
Uuids == 1..(2 * MaxJobs)
\* an id no uuid4() call ever returned (a delete request for an unknown job)
UnknownId == 0

VARIABLES
    libtorrent_available,  \* LIBTORRENT_AVAILABLE (fixed at import time)
    uuids,                 \* how many uuid4() values have been drawn
    jobs,                  \* TorrentManager._jobs: id -> job
    lock,                  \* TorrentManager._lock: the thread holding it
    job,                   \* the TorrentJob objects' fields, by job
    addPc, addTemp,        \* add_job request threads: position, job_temp_dir
    wpc,                   \* worker threads (TorrentJob._run): position
    walk,                  \* worker locals inside _process_files
    engine,                \* the transfer in the libtorrent session, by job
    temp,                  \* temp directories under temp_root, by name
    dest,                  \* dest_dir: file name -> content
    dpc, dId, dJob, dRet,  \* delete_job request threads
    lpc, lRem, lCur, lSnap, lRet,  \* the list_jobs request thread
    gpc, gId, gRet,        \* the get_job request thread
    hist,                  \* history of each job (read by properties only)
    sreq,                  \* the streaming request being served: its inputs
    spc,                   \* where its handler or its response stream is
    sresp,                 \* the response the handler returned
    sgen,                  \* the response's body generator
    sproc,                 \* the encoder subprocess of the request
    extensions,            \* current_app.extensions.get("torrent_manager")
    managers,              \* the TorrentManager objects built: their _jobs
    apc,                   \* admin request threads: position in the view
    mgr,                   \* their local mgr of _get_torrent_manager
    request,               \* the request each of them serves
    response               \* what the view returned for it

vars == <<libtorrent_available, uuids, jobs, lock, job, addPc, addTemp, wpc,
          walk, engine, temp, dest, dpc, dId, dJob, dRet, lpc, lRem, lCur,
          lSnap, lRet, gpc, gId, gRet, hist, sreq, spc, sresp, sgen, sproc,
          extensions, managers, apc, mgr, request, response>>

\* the state of streaming.py
streamVars == <<sreq, spc, sresp, sgen, sproc>>
\* what no action of the torrent downloader writes
adminVars == <<extensions, managers, apc, mgr, request, response>>
envVars  == <<libtorrent_available, streamVars, adminVars>>
mgrVars  == <<jobs, lock>>
addVars  == <<addPc, addTemp>>
delVars  == <<dpc, dId, dJob, dRet>>
listVars == <<lpc, lRem, lCur, lSnap, lRet, gpc, gId, gRet>>
fsVars   == <<temp, dest>>

\* ------------------------------------------------------------ threads
NoThread == <<"none", 0>>
AddThread(j) == <<"add_job", j>>
Worker(j) == <<"worker", j>>
DelThread(d) == <<"delete_job", d>>
ListThread == <<"list_jobs", 0>>
GetThread == <<"get_job", 0>>

\* ------------------------------------------------------------ strings
\* str.lower() on the extension strings that occur in the model
Lower(s) ==
    CASE s = ".MP4" -> ".mp4"
      [] s = "NVIDIA" -> "nvidia"
      [] s = "MP4" -> "mp4"
      [] OTHER -> s

\* str.lstrip(".") on the extension strings that occur in the model
LStripDot(s) ==
    CASE s = ".mp4" -> "mp4"
      [] s = ".MP4" -> "MP4"
      [] s = ".txt" -> "txt"
      [] s = ".mkv" -> "mkv"
      [] OTHER -> s

\* str.strip() is non-empty
NonBlank(s) == s \notin {"", " "}

\* {e.lower().lstrip(".") for e in video_exts if e.strip()}
NormaliseExts(video_exts) ==
    { LStripDot(Lower(video_exts[i])) :
        i \in { k \in 1..Len(video_exts) : NonBlank(video_exts[k]) } }

\* os.path.splitext(fname)[1].lower().lstrip(".")
FileExt(f) == LStripDot(Lower(f.ext))

\* ------------------------------------------------------------ inputs
\* magnet_uri: one lt.parse_magnet_uri accepts, one it raises on
Magnets == {"magnet:ok", "not-a-magnet"}
\* video_exts as the caller passes it
ExtInputs == { <<".mp4", " ">> }

\* the files of the torrent behind "magnet:ok", relative to save_path:
\* readme.txt and video/clip.MP4
TorrentFiles ==
    { [dir |-> "", base |-> "readme", ext |-> ".txt"],
      [dir |-> "video", base |-> "clip", ext |-> ".MP4"] }

\* a file name in dest_dir: base, collision counter k (0: none), extension;
\* <<base, k, ext>> stands for f"{base}_{k}{ext}", <<base, 0, ext>> for
\* f"{base}{ext}"
DestName(base, k, ext) == <<base, k, ext>>

\* the content of a file in dest_dir: the job that downloaded it and the
\* torrent's file it is
Content(j, f) == <<j, f.dir, f.base, f.ext>>

\* ------------------------------------------------------------ job objects
\* TorrentJob.__init__: the fields a new job starts with
NewJob(id, magnet, temp_dir, video_exts) ==
    [ id |-> id,
      magnet_uri |-> magnet,
      temp_dir |-> temp_dir,
      video_exts |-> NormaliseExts(video_exts),
      status |-> "queued",
      error |-> "None",
      progress |-> 0,
      download_rate |-> 0,
      upload_rate |-> 0,
      elapsed_seconds |-> 0,
      eta_seconds |-> <<>>,
      created_at |-> TRUE,
      started_at |-> FALSE,
      completed_at |-> FALSE,
      cancel_requested |-> FALSE ]

\* the slot of a job whose constructor has not run yet
NoJob == [ NewJob(0, "", 0, <<>>) EXCEPT !.created_at = FALSE ]

Created(j) == job[j].id # 0

Terminal == {"completed", "error", "cancelled"}
Live == {"queued", "downloading", "processing"}

NoDir == [exists |-> FALSE, files |-> {}]
NoWalk == [dirs |-> <<>>, files |-> <<>>, cur |-> <<>>, counter |-> 0]
\* a list_jobs result: the snapshots by job id, or the exception it raised
NoList == [raised |-> "None", jobs |-> <<>>]
\* a job's history: the allow-listed files under its temp directory when it
\* entered processing, where its worker was at the first cancel() call, the
\* operations that removed it from the registry and how often it notified
\* ------------------------------------------------------------ streaming objects
\* quality=None of range_request_response, and a request without ?quality
NoQuality == 0

\* no request is being served
NoRequest ==
    [route |-> FALSE, banned |-> FALSE, query |-> NoQuality,
     exists |-> FALSE, size |-> 0, range |-> <<>>, quality |-> NoQuality,
     ffmpeg |-> FALSE]

\* a response: status, the component that built it, the Content-Range
\* <<start, end, total>>, Content-Length <<n>> and Accept-Ranges headers
\* (<<>>: header absent)
NoResponse ==
    [status |-> 0, by |-> "none", content_range |-> <<>>,
     content_length |-> <<>>, accept_ranges |-> FALSE]

\* a body generator: which one, its state (created, suspended at a yield,
\* exhausted, closed), the file position and bytes remaining of generate(),
\* and the bytes it has yielded
NoGenerator ==
    [kind |-> "none", state |-> "none", pos |-> 0, remaining |-> 0,
     sent |-> <<>>]

\* an encoder process: the backends Popen was called for, whether a process
\* was started, the chunks it has written, and how often its pipe was
\* closed and it was killed
NoProcess ==
    [spawns |-> <<>>, started |-> FALSE, written |-> 0, closes |-> 0,
     kills |-> 0]

\* None, for app.extensions.get("torrent_manager") and the local mgr
NoManager == 0

\* an admin thread that serves no request, and a view that has not returned
NoAdminRequest == [route |-> "none", magnet_link |-> "", job_id |-> UnknownId]
NoAdminResponse == [by |-> "none", jobs |-> {}, ok |-> FALSE]

NoHist == [processed |-> {}, cancelAt |-> "never", removals |-> <<>>,
           notified |-> 0, cancelSeeding |-> FALSE]

Init ==
    /\ libtorrent_available \in BOOLEAN
    /\ uuids = 0
    /\ jobs = <<>>
    /\ lock = NoThread
    /\ job = [j \in Jobs |-> NoJob]
    /\ addPc = [j \in Jobs |-> "call"]
    /\ addTemp = [j \in Jobs |-> 0]
    /\ wpc = [j \in Jobs |-> "unstarted"]
    /\ walk = [j \in Jobs |-> NoWalk]
    /\ engine = [j \in Jobs |-> "none"]
    /\ temp = [u \in Uuids |-> NoDir]
    /\ dest = <<>>
    /\ dpc = [d \in Deleters |-> "idle"]
    /\ dId = [d \in Deleters |-> UnknownId]
    /\ dJob = [d \in Deleters |-> 0]
    /\ dRet = [d \in Deleters |-> "none"]
    /\ lpc = "idle"
    /\ lRem = {}
    /\ lCur = 0
    /\ lSnap = <<>>
    /\ lRet = NoList
    /\ gpc = "idle"
    /\ gId = UnknownId
    /\ gRet = 0
    /\ hist = [j \in Jobs |-> NoHist]
    /\ sreq = NoRequest
    /\ spc = "idle"
    /\ sresp = NoResponse
    /\ sgen = NoGenerator
    /\ sproc = NoProcess
    /\ extensions = NoManager
    /\ managers = <<>>
    /\ apc = [r \in Requests |-> "idle"]
    /\ mgr = [r \in Requests |-> NoManager]
    /\ request = [r \in Requests |-> NoAdminRequest]
    /\ response = [r \in Requests |-> NoAdminResponse]

\* ------------------------------------------------------------ uuid4
\* an id taken from the size of the registry, as len(self._jobs) + 1
UuidFromRegistrySize == Cardinality(DOMAIN jobs) + 1

\* uuid.uuid4(): a value no earlier call returned (122 random bits; a
\* collision is taken to have probability 0)
Uuid4 == uuids + 1

\* ------------------------------------------------------------ add_job
\* line 264: job_temp_dir = os.path.join(self.temp_root, uuid.uuid4().hex)
AddTempDir(j) ==
    /\ addPc[j] = "call"
    /\ \A i \in Jobs : i < j => addPc[i] # "call"
    /\ addTemp' = [addTemp EXCEPT ![j] = Uuid4]
    /\ uuids' = uuids + 1
    /\ addPc' = [addPc EXCEPT ![j] = "construct"]
    /\ UNCHANGED <<envVars, mgrVars, job, wpc, walk, engine,
                   fsVars, delVars, listVars, hist>>

\* lines 265-271: job = TorrentJob(...), whose id is a second uuid4()
AddConstruct(j) ==
    /\ addPc[j] = "construct"
    /\ \E m \in Magnets, x \in ExtInputs :
         job' = [job EXCEPT ![j] = NewJob(Uuid4, m, addTemp[j], x)]
    /\ uuids' = uuids + 1
    /\ addPc' = [addPc EXCEPT ![j] = "lock"]
    /\ UNCHANGED <<envVars, mgrVars, addTemp, wpc, walk, engine,
                   fsVars, delVars, listVars, hist>>

\* AddLock without the with statement: the registry is written unlocked
AddLockSkipped(j) ==
    /\ addPc[j] = "lock"
    /\ addPc' = [addPc EXCEPT ![j] = "register"]
    /\ UNCHANGED <<envVars, uuids, mgrVars, job, addTemp, wpc, walk,
                   engine, fsVars, delVars, listVars, hist>>

\* line 273: with self._lock (acquire)
AddLock(j) ==
    /\ addPc[j] = "lock"
    /\ lock = NoThread
    /\ lock' = AddThread(j)
    /\ addPc' = [addPc EXCEPT ![j] = "register"]
    /\ UNCHANGED <<envVars, uuids, jobs, job, addTemp, wpc, walk,
                   engine, fsVars, delVars, listVars, hist>>

\* dict.__setitem__: self._jobs[key] = value
DictSet(d, key, value) ==
    [k \in DOMAIN d \cup {key} |-> IF k = key THEN value ELSE d[k]]

\* dict.pop(key, None): the mapping without key
DictPop(d, key) == [k \in DOMAIN d \ {key} |-> d[k]]

\* line 274: self._jobs[job.id] = job, and the lock's release
AddRegister(j) ==
    /\ addPc[j] = "register"
    /\ jobs' = DictSet(jobs, job[j].id, j)
    /\ lock' = NoThread
    /\ addPc' = [addPc EXCEPT ![j] = "start"]
    /\ UNCHANGED <<envVars, uuids, job, addTemp, wpc, walk,
                   engine, fsVars, delVars, listVars, hist>>

\* lines 276-277: job.start(); return job
AddStart(j) ==
    /\ addPc[j] = "start"
    /\ wpc' = [wpc EXCEPT ![j] = "run"]
    /\ addPc' = [addPc EXCEPT ![j] = "returned"]
    /\ UNCHANGED <<envVars, uuids, mgrVars, job, addTemp, walk,
                   engine, fsVars, delVars, listVars, hist>>

\* line 276 alone: job.start()
AddStartThread(j) ==
    /\ addPc[j] = "start"
    /\ wpc' = [wpc EXCEPT ![j] = "run"]
    /\ addPc' = [addPc EXCEPT ![j] = "return"]
    /\ UNCHANGED <<envVars, uuids, mgrVars, job, addTemp, walk,
                   engine, fsVars, delVars, listVars, hist>>

\* line 277 alone: return job
AddReturn(j) ==
    /\ addPc[j] = "return"
    /\ addPc' = [addPc EXCEPT ![j] = "returned"]
    /\ UNCHANGED <<envVars, uuids, mgrVars, job, addTemp, wpc, walk,
                   engine, fsVars, delVars, listVars, hist>>

\* add_job with the worker running before line 277 has returned the job; in
\* AddJob the return, which touches nothing shared, is one step with the start
AddJobReturning(j) ==
    \/ AddTempDir(j)
    \/ AddConstruct(j)
    \/ AddLock(j)
    \/ AddRegister(j)
    \/ AddStartThread(j)
    \/ AddReturn(j)

AddJob(j) ==
    \/ AddTempDir(j)
    \/ AddConstruct(j)
    \/ AddLock(j)
    \/ AddRegister(j)
    \/ AddStart(j)

\* ------------------------------------------------------------ file system
\* shutil.rmtree(path, ignore_errors=True)
Rmtree(t, path) == [t EXCEPT ![path] = NoDir]

\* os.makedirs(path, exist_ok=True)
Makedirs(t, path) == [t EXCEPT ![path].exists = TRUE]

\* the files os.walk's scandir finds in directory d of the tree at path (none
\* when the directory is gone: os.walk ignores the error)
Scandir(t, path, d) == { f \in t[path].files : f.dir = d }

\* the subdirectories scandir finds in the root of the tree at path
Subdirs(t, path) == { f.dir : f \in t[path].files } \ {""}

\* a directory listing, in the order the file system returns it
RECURSIVE Listing(_)
Listing(S) ==
    IF S = {} THEN <<>>
    ELSE LET x == CHOOSE y \in S : TRUE IN <<x>> \o Listing(S \ {x})

\* the torrent's files that the allow-list keeps
Allowed(j, files) == { f \in files : FileExt(f) \in job[j].video_exts }

\* ------------------------------------------------------------ transfer engine
\* the libtorrent session downloads in the background: once the transfer is
\* complete every file of the torrent is under save_path and it is seeding
EngineDownload(j) ==
    /\ engine[j] = "active"
    /\ engine' = [engine EXCEPT ![j] = "seeding"]
    /\ temp' = [temp EXCEPT ![job[j].temp_dir] =
                  [exists |-> TRUE, files |-> TorrentFiles]]
    /\ UNCHANGED <<envVars, uuids, mgrVars, job, addVars, wpc,
                   walk, dest, delVars, listVars, hist>>

\* handle.status(): what the engine can report at a poll
Samples(j) ==
    { [done |-> d, download_rate |-> dl, upload_rate |-> ul,
       is_seeding |-> engine[j] = "seeding"] :
        d \in IF engine[j] = "seeding" THEN {TotalWanted}
              ELSE 0..(TotalWanted - 1),
        dl \in 0..MaxRate, ul \in 0..MaxRate }

\* the reports of a transfer without peers: nothing moves until it is done
IdleSamples(j) ==
    { s \in Samples(j) : /\ s.download_rate = 0
                         /\ s.upload_rate = 0
                         /\ s.done \in {0, TotalWanted} }

\* lines 175-179: the estimated time remaining, a fraction <<bytes, rate>>
\* or <<>> for None
EtaSeconds(remaining_bytes, download_rate) ==
    IF download_rate > 0 /\ remaining_bytes > 0
    THEN <<remaining_bytes, download_rate>>
    ELSE <<>>

Max(a, b) == IF a >= b THEN a ELSE b

\* ------------------------------------------------------------ TorrentJob._run
\* the worker has not yet passed the test of line 197
BeforeCheck(j) ==
    wpc[j] \in {"unstarted", "run", "begin", "started", "setup", "loop",
                "poll", "stop", "check"}

\* where the worker is at a cancel() call
CancelPoint(j) ==
    IF job[j].status \in Terminal THEN "terminal"
    ELSE IF BeforeCheck(j) THEN "before_check"
    ELSE job[j].status

\* the worker has left the poll loop by the break of line 183, on a report
\* of is_seeding, and is before the test of line 197
LeftLoopSeeding(j) ==
    wpc[j] \in {"stop", "check"} /\ ~job[j].cancel_requested

\* lines 71-72: self._cancel_requested = True
SetCancel(j) ==
    /\ job' = [job EXCEPT ![j].cancel_requested = TRUE]
    /\ hist' = [hist EXCEPT
          ![j].cancelAt = IF @ = "never" THEN CancelPoint(j) ELSE @,
          ![j].cancelSeeding = IF hist[j].cancelAt = "never"
                               THEN LeftLoopSeeding(j) ELSE @]

\* TorrentJob.cancel(), called on the job object by any thread
Cancel(j) ==
    /\ Created(j)
    /\ SetCancel(j)
    /\ UNCHANGED <<envVars, uuids, mgrVars, addVars, wpc, walk,
                   engine, fsVars, delVars, listVars>>

\* the worker's step that only writes fields of its own job
WStep(j, from, to, newJob) ==
    /\ wpc[j] = from
    /\ wpc' = [wpc EXCEPT ![j] = to]
    /\ job' = [job EXCEPT ![j] = newJob]
    /\ UNCHANGED <<envVars, uuids, mgrVars, addVars, walk,
                   engine, fsVars, delVars, listVars, hist>>

\* lines 121-122: libtorrent is missing: self.status = "error"
WNoLibStatus(j) ==
    /\ ~libtorrent_available
    /\ WStep(j, "run", "nolib_error", [job[j] EXCEPT !.status = "error"])

\* line 123: self.error = "python-libtorrent is not installed."
WNoLibError(j) ==
    WStep(j, "nolib_error", "notify", [job[j] EXCEPT !.error = "not installed"])

\* line 127: os.makedirs(self.temp_dir, exist_ok=True)
WMakeTemp(j) ==
    /\ libtorrent_available
    /\ wpc[j] = "run"
    /\ wpc' = [wpc EXCEPT ![j] = "begin"]
    /\ temp' = Makedirs(temp, job[j].temp_dir)
    /\ UNCHANGED <<envVars, uuids, mgrVars, job, addVars, walk,
                   engine, dest, delVars, listVars, hist>>

\* line 146: self.status = "downloading"
WDownloading(j) ==
    WStep(j, "begin", "started", [job[j] EXCEPT !.status = "downloading"])

\* line 147: self.started_at = datetime.utcnow()
WStartedAt(j) ==
    WStep(j, "started", "setup", [job[j] EXCEPT !.started_at = TRUE])

\* lines 148-156: the session, parse_magnet_uri and add_torrent; a magnet
\* parse_magnet_uri rejects raises out of _run_libtorrent
WSetup(j) ==
    /\ wpc[j] = "setup"
    /\ IF job[j].magnet_uri = "magnet:ok"
       THEN /\ engine' = [engine EXCEPT ![j] = "active"]
            /\ wpc' = [wpc EXCEPT ![j] = "loop"]
       ELSE /\ engine' = engine
            /\ wpc' = [wpc EXCEPT ![j] = "except"]
    /\ UNCHANGED <<envVars, uuids, mgrVars, job, addVars, walk,
                   fsVars, delVars, listVars, hist>>

\* WLoopTest as while True: only the break of line 183 leaves the loop
WLoopTestIgnoringCancel(j) == WStep(j, "loop", "poll", job[j])

\* line 159: while not self._cancel_requested
WLoopTest(j) ==
    WStep(j, "loop", IF job[j].cancel_requested THEN "stop" ELSE "poll", job[j])

\* the fields one poll tick writes from the engine's report s (lines 170-179)
Tick(r, s) ==
    [r EXCEPT !.progress = s.done,
              !.download_rate = s.download_rate,
              !.upload_rate = s.upload_rate,
              !.elapsed_seconds = 1,
              !.eta_seconds = EtaSeconds(Max(0, TotalWanted - s.done),
                                         s.download_rate)]

\* lines 160-185: one poll tick on the report s; the loop is left when the
\* engine is seeding
WTick(j, s) ==
    WStep(j, "poll", IF s.is_seeding THEN "stop" ELSE "loop", Tick(job[j], s))

\* a poll tick, on any report
WPoll(j) == \E s \in Samples(j) : WTick(j, s)

\* a poll tick of a transfer without peers
WPollIdle(j) == \E s \in IdleSamples(j) : WTick(j, s)

\* line 160: handle.status() raises
WPollFails(j) ==
    WStep(j, "poll", "except", job[j])

\* lines 188-195: ses.remove_torrent(handle); ses.pause()
WStopTransfer(j) ==
    /\ wpc[j] = "stop"
    /\ wpc' = [wpc EXCEPT ![j] = "check"]
    /\ engine' = [engine EXCEPT ![j] = "removed"]
    /\ UNCHANGED <<envVars, uuids, mgrVars, job, addVars, walk,
                   fsVars, delVars, listVars, hist>>

\* lines 197-198: if self._cancel_requested: self.status = "cancelled"
WCancelled(j) ==
    /\ job[j].cancel_requested
    /\ WStep(j, "check", "cleanup_cancelled",
             [job[j] EXCEPT !.status = "cancelled"])

\* WCleanupCancelled with a _cleanup_temp that lets rmtree's failure escape
\* into _run's except clause
WCleanupCancelledRaising(j) ==
    /\ wpc[j] = "cleanup_cancelled"
    /\ wpc' = [wpc EXCEPT ![j] = "except"]
    /\ UNCHANGED <<envVars, uuids, mgrVars, job, addVars, walk, engine,
                   fsVars, delVars, listVars, hist>>

\* lines 199-200 and 242-247: self._cleanup_temp(); return
WCleanupCancelled(j) ==
    /\ wpc[j] = "cleanup_cancelled"
    /\ wpc' = [wpc EXCEPT ![j] = "finally"]
    /\ temp' = Rmtree(temp, job[j].temp_dir)
    /\ UNCHANGED <<envVars, uuids, mgrVars, job, addVars, walk,
                   engine, dest, delVars, listVars, hist>>

\* WProcessing without the test of line 197
WProcessingUntested(j) ==
    /\ wpc[j] = "check"
    /\ wpc' = [wpc EXCEPT ![j] = "walk"]
    /\ job' = [job EXCEPT ![j].status = "processing"]
    /\ hist' = [hist EXCEPT ![j].processed =
                  Allowed(j, temp[job[j].temp_dir].files)]
    /\ UNCHANGED <<envVars, uuids, mgrVars, addVars, walk,
                   engine, fsVars, delVars, listVars>>

\* lines 197, 203: no cancellation seen: self.status = "processing"
WProcessing(j) ==
    /\ ~job[j].cancel_requested
    /\ wpc[j] = "check"
    /\ wpc' = [wpc EXCEPT ![j] = "walk"]
    /\ job' = [job EXCEPT ![j].status = "processing"]
    /\ hist' = [hist EXCEPT ![j].processed =
                  Allowed(j, temp[job[j].temp_dir].files)]
    /\ UNCHANGED <<envVars, uuids, mgrVars, addVars, walk,
                   engine, fsVars, delVars, listVars>>

\* lines 214-216: os.makedirs(self.dest_dir) and os.walk's first directory,
\* the temp directory itself
WWalkRoot(j) ==
    /\ wpc[j] = "walk"
    /\ wpc' = [wpc EXCEPT ![j] = "file"]
    /\ walk' = [walk EXCEPT ![j] =
          [NoWalk EXCEPT
             !.dirs = Listing(Subdirs(temp, job[j].temp_dir)),
             !.files = Listing(Scandir(temp, job[j].temp_dir, ""))]]
    /\ UNCHANGED <<envVars, uuids, mgrVars, job, addVars,
                   engine, fsVars, delVars, listVars, hist>>

\* line 216: os.walk's next directory, once the files of the last are done
WWalkDir(j) ==
    /\ wpc[j] = "file"
    /\ walk[j].files = <<>>
    /\ walk[j].dirs # <<>>
    /\ walk' = [walk EXCEPT
          ![j].dirs = Tail(@),
          ![j].files = Listing(Scandir(temp, job[j].temp_dir,
                                       Head(walk[j].dirs)))]
    /\ UNCHANGED <<envVars, uuids, mgrVars, job, addVars, wpc,
                   engine, fsVars, delVars, listVars, hist>>

\* line 216: os.walk is exhausted
WWalkEnd(j) ==
    /\ wpc[j] = "file"
    /\ walk[j].files = <<>>
    /\ walk[j].dirs = <<>>
    /\ wpc' = [wpc EXCEPT ![j] = "cleanup_processed"]
    /\ walk' = [walk EXCEPT ![j] = NoWalk]
    /\ UNCHANGED <<envVars, uuids, mgrVars, job, addVars,
                   engine, fsVars, delVars, listVars, hist>>

\* lines 217-227: the next file is allow-listed: dest_name = fname, counter = 1
WTakeFile(j) ==
    /\ wpc[j] = "file"
    /\ walk[j].files # <<>>
    /\ LET f == Head(walk[j].files) IN
         /\ FileExt(f) \in job[j].video_exts
         /\ walk' = [walk EXCEPT
               ![j].cur = <<f, DestName(f.base, 0, f.ext)>>,
               ![j].counter = 1]
    /\ wpc' = [wpc EXCEPT ![j] = "exists"]
    /\ UNCHANGED <<envVars, uuids, mgrVars, job, addVars,
                   engine, fsVars, delVars, listVars, hist>>

\* lines 234-238: the next file is not allow-listed: os.remove(fpath), any
\* failure ignored
WRemoveOther(j) ==
    /\ wpc[j] = "file"
    /\ walk[j].files # <<>>
    /\ LET f == Head(walk[j].files) IN
         /\ FileExt(f) \notin job[j].video_exts
         /\ temp' = [temp EXCEPT ![job[j].temp_dir].files = @ \ {f}]
    /\ walk' = [walk EXCEPT ![j].files = Tail(@)]
    /\ UNCHANGED <<envVars, uuids, mgrVars, job, addVars, wpc,
                   engine, dest, delVars, listVars, hist>>

\* lines 228-231: while os.path.exists(dest_path): the next suffixed name
WExists(j) ==
    /\ wpc[j] = "exists"
    /\ LET f == walk[j].cur[1] IN
         IF walk[j].cur[2] \in DOMAIN dest
         THEN /\ walk' = [walk EXCEPT
                    ![j].cur = <<f, DestName(f.base, walk[j].counter, f.ext)>>,
                    ![j].counter = @ + 1]
              /\ wpc' = wpc
         ELSE /\ walk' = walk
              /\ wpc' = [wpc EXCEPT ![j] = "move"]
    /\ UNCHANGED <<envVars, uuids, mgrVars, job, addVars,
                   engine, fsVars, delVars, listVars, hist>>

\* line 233: shutil.move(fpath, dest_path): a rename, which replaces a file
\* that is at dest_path by now; it raises when fpath is gone
WMove(j) ==
    /\ wpc[j] = "move"
    /\ LET f == walk[j].cur[1] IN
         IF f \in temp[job[j].temp_dir].files
         THEN /\ dest' = DictSet(dest, walk[j].cur[2], Content(j, f))
              /\ temp' = [temp EXCEPT ![job[j].temp_dir].files = @ \ {f}]
              /\ walk' = [walk EXCEPT ![j].files = Tail(@), ![j].cur = <<>>,
                                      ![j].counter = 0]
              /\ wpc' = [wpc EXCEPT ![j] = "file"]
         ELSE /\ UNCHANGED <<dest, temp>>
              /\ walk' = [walk EXCEPT ![j] = NoWalk]
              /\ wpc' = [wpc EXCEPT ![j] = "except"]
    /\ UNCHANGED <<envVars, uuids, mgrVars, job, addVars,
                   engine, delVars, listVars, hist>>

\* lines 240 and 242-247: self._cleanup_temp() at the end of _process_files
WCleanupProcessed(j) ==
    /\ wpc[j] = "cleanup_processed"
    /\ wpc' = [wpc EXCEPT ![j] = "completed"]
    /\ temp' = Rmtree(temp, job[j].temp_dir)
    /\ UNCHANGED <<envVars, uuids, mgrVars, job, addVars, walk,
                   engine, dest, delVars, listVars, hist>>

\* line 206: self.status = "completed"
WCompleted(j) ==
    WStep(j, "completed", "progress", [job[j] EXCEPT !.status = "completed"])

\* line 207: self.progress = 1.0
WProgressFull(j) ==
    WStep(j, "progress", "completed_at",
          [job[j] EXCEPT !.progress = TotalWanted])

\* line 208: self.completed_at = datetime.utcnow()
WCompletedAt(j) ==
    WStep(j, "completed_at", "finally", [job[j] EXCEPT !.completed_at = TRUE])

\* WExceptStatus writing the status of every constructed job, as a status
\* kept on the class and not on the instance
WExceptStatusAll(j) ==
    /\ wpc[j] = "except"
    /\ wpc' = [wpc EXCEPT ![j] = "except_error"]
    /\ job' = [i \in Jobs |-> IF Created(i)
                              THEN [job[i] EXCEPT !.status = "error"]
                              ELSE job[i]]
    /\ UNCHANGED <<envVars, uuids, mgrVars, addVars, walk,
                   engine, fsVars, delVars, listVars, hist>>

\* lines 131-132: except Exception: self.status = "error"
WExceptStatus(j) ==
    WStep(j, "except", "except_error", [job[j] EXCEPT !.status = "error"])

\* line 133: self.error = f"Unexpected error: {exc!r}"
WExceptError(j) ==
    WStep(j, "except_error", "except_rmtree",
          [job[j] EXCEPT !.error = "Unexpected error"])

\* lines 134-137: shutil.rmtree(self.temp_dir, ignore_errors=True); the
\* session, a local of _run_libtorrent, is dropped with the exception
WExceptRmtree(j) ==
    /\ wpc[j] = "except_rmtree"
    /\ wpc' = [wpc EXCEPT ![j] = "finally"]
    /\ temp' = Rmtree(temp, job[j].temp_dir)
    /\ engine' = [engine EXCEPT ![j] = IF @ = "none" THEN @ ELSE "removed"]
    /\ UNCHANGED <<envVars, uuids, mgrVars, job, addVars, walk,
                   dest, delVars, listVars, hist>>

\* WFinally without the notification
WFinallySilent(j) == WStep(j, "finally", "done", job[j])

\* lines 138-141: finally: notify when the status is terminal
WFinally(j) ==
    WStep(j, "finally",
          IF job[j].status \in Terminal THEN "notify" ELSE "done", job[j])

\* lines 113-115, 306: _notify_manager_finished -> _job_finished: with
\* self._lock (acquire)
WNotifyLock(j) ==
    /\ wpc[j] = "notify"
    /\ lock = NoThread
    /\ lock' = Worker(j)
    /\ wpc' = [wpc EXCEPT ![j] = "finished"]
    /\ hist' = [hist EXCEPT ![j].notified = @ + 1]
    /\ UNCHANGED <<envVars, uuids, jobs, job, addVars, walk,
                   engine, fsVars, delVars, listVars>>

\* WJobFinished that looks the job up by its temp directory's name, so that
\* it finds and removes nothing
WJobFinishedKeeping(j) ==
    /\ wpc[j] = "finished"
    /\ lock' = NoThread
    /\ wpc' = [wpc EXCEPT ![j] = "done"]
    /\ UNCHANGED <<envVars, uuids, jobs, job, addVars, walk, engine,
                   fsVars, delVars, listVars, hist>>

\* WJobFinished that empties the registry, as self._jobs.clear()
WJobFinishedClearing(j) ==
    /\ wpc[j] = "finished"
    /\ lock' = NoThread
    /\ wpc' = [wpc EXCEPT ![j] = "done"]
    /\ jobs' = <<>>
    /\ hist' = IF job[j].id \in DOMAIN jobs
               THEN [hist EXCEPT ![jobs[job[j].id]].removals =
                        Append(@, "_job_finished")]
               ELSE hist
    /\ UNCHANGED <<envVars, uuids, job, addVars, walk, engine,
                   fsVars, delVars, listVars>>

\* lines 308-309: if job.id in self._jobs: self._jobs.pop(job.id, None), and
\* the lock's release
WJobFinished(j) ==
    /\ wpc[j] = "finished"
    /\ lock' = NoThread
    /\ wpc' = [wpc EXCEPT ![j] = "done"]
    /\ IF job[j].id \in DOMAIN jobs
       THEN /\ jobs' = DictPop(jobs, job[j].id)
            /\ hist' = [hist EXCEPT ![jobs[job[j].id]].removals =
                          Append(@, "_job_finished")]
       ELSE UNCHANGED <<jobs, hist>>
    /\ UNCHANGED <<envVars, uuids, job, addVars, walk, engine,
                   fsVars, delVars, listVars>>

\* TorrentJob._run but for its poll tick
Run(j) ==
    \/ WNoLibStatus(j)
    \/ WNoLibError(j)
    \/ WMakeTemp(j)
    \/ WDownloading(j)
    \/ WStartedAt(j)
    \/ WSetup(j)
    \/ WLoopTest(j)
    \/ WPollFails(j)
    \/ WStopTransfer(j)
    \/ WCancelled(j)
    \/ WCleanupCancelled(j)
    \/ WProcessing(j)
    \/ WWalkRoot(j)
    \/ WWalkDir(j)
    \/ WWalkEnd(j)
    \/ WTakeFile(j)
    \/ WRemoveOther(j)
    \/ WExists(j)
    \/ WMove(j)
    \/ WCleanupProcessed(j)
    \/ WCompleted(j)
    \/ WProgressFull(j)
    \/ WCompletedAt(j)
    \/ WExceptStatus(j)
    \/ WExceptError(j)
    \/ WExceptRmtree(j)
    \/ WFinally(j)
    \/ WNotifyLock(j)
    \/ WJobFinished(j)

\* ------------------------------------------------------------ delete_job
\* the ids a request can name: those of the jobs constructed so far, and one
\* that is no job's
RequestIds == {UnknownId} \cup { job[j].id : j \in { i \in Jobs : Created(i) } }

\* line 293: a request calls delete_job(job_id): with self._lock (acquire)
DeleteLock(d) ==
    /\ dpc[d] = "idle"
    /\ lock = NoThread
    /\ lock' = DelThread(d)
    /\ \E id \in RequestIds : dId' = [dId EXCEPT ![d] = id]
    /\ dpc' = [dpc EXCEPT ![d] = "pop"]
    /\ dRet' = [dRet EXCEPT ![d] = "none"]
    /\ UNCHANGED <<envVars, uuids, jobs, job, addVars, wpc, walk,
                   engine, fsVars, dJob, listVars, hist>>

\* DeletePop that returns True whether or not there was such a job
DeletePopAlwaysTrue(d) ==
    /\ dpc[d] = "pop"
    /\ jobs' = DictPop(jobs, dId[d])
    /\ lock' = NoThread
    /\ IF dId[d] \in DOMAIN jobs
       THEN /\ dJob' = [dJob EXCEPT ![d] = jobs[dId[d]]]
            /\ dpc' = [dpc EXCEPT ![d] = "cancel"]
            /\ dRet' = dRet
            /\ hist' = [hist EXCEPT ![jobs[dId[d]]].removals =
                          Append(@, "delete_job")]
       ELSE /\ dJob' = dJob
            /\ dpc' = [dpc EXCEPT ![d] = "idle"]
            /\ dRet' = [dRet EXCEPT ![d] = "True"]
            /\ hist' = hist
    /\ dId' = [dId EXCEPT ![d] = UnknownId]
    /\ UNCHANGED <<envVars, uuids, job, addVars, wpc, walk,
                   engine, fsVars, listVars>>

\* lines 294-297: job = self._jobs.pop(job_id, None), the lock's release, and
\* return False when there was no such job
DeletePop(d) ==
    /\ dpc[d] = "pop"
    /\ jobs' = DictPop(jobs, dId[d])
    /\ lock' = NoThread
    /\ IF dId[d] \in DOMAIN jobs
       THEN /\ dJob' = [dJob EXCEPT ![d] = jobs[dId[d]]]
            /\ dpc' = [dpc EXCEPT ![d] = "cancel"]
            /\ dRet' = dRet
            /\ hist' = [hist EXCEPT ![jobs[dId[d]]].removals =
                          Append(@, "delete_job")]
       ELSE /\ dJob' = dJob
            /\ dpc' = [dpc EXCEPT ![d] = "idle"]
            /\ dRet' = [dRet EXCEPT ![d] = "False"]
            /\ hist' = hist
    /\ dId' = [dId EXCEPT ![d] = UnknownId]
    /\ UNCHANGED <<envVars, uuids, job, addVars, wpc, walk,
                   engine, fsVars, listVars>>

\* line 299: job.cancel()
DeleteCancel(d) ==
    /\ dpc[d] = "cancel"
    /\ SetCancel(dJob[d])
    /\ dpc' = [dpc EXCEPT ![d] = "join"]
    /\ UNCHANGED <<envVars, uuids, mgrVars, addVars, wpc, walk,
                   engine, fsVars, dId, dJob, dRet, listVars>>

\* line 300: job.join(timeout=1.0): returns when the worker has ended or the
\* second is over, whichever is first; Thread.join raises RuntimeError on a
\* thread that was not started yet, which ends delete_job
DeleteJoin(d) ==
    /\ dpc[d] = "join"
    /\ IF wpc[dJob[d]] = "unstarted"
       THEN /\ dpc' = [dpc EXCEPT ![d] = "idle"]
            /\ dRet' = [dRet EXCEPT ![d] = "RuntimeError"]
            /\ dJob' = [dJob EXCEPT ![d] = 0]
       ELSE /\ dpc' = [dpc EXCEPT ![d] = "cleanup"]
            /\ UNCHANGED <<dRet, dJob>>
    /\ UNCHANGED <<envVars, uuids, mgrVars, job, addVars, wpc,
                   walk, engine, fsVars, dId, listVars, hist>>

\* lines 301-302 and 77-85: job.force_cleanup(); return True
DeleteCleanup(d) ==
    /\ dpc[d] = "cleanup"
    /\ temp' = Rmtree(temp, job[dJob[d]].temp_dir)
    /\ dpc' = [dpc EXCEPT ![d] = "idle"]
    /\ dRet' = [dRet EXCEPT ![d] = "True"]
    /\ dJob' = [dJob EXCEPT ![d] = 0]
    /\ UNCHANGED <<envVars, uuids, mgrVars, job, addVars, wpc,
                   walk, engine, dest, dId, listVars, hist>>

DeleteJob(d) ==
    \/ DeleteLock(d)
    \/ DeletePop(d)
    \/ DeleteCancel(d)
    \/ DeleteJoin(d)
    \/ DeleteCleanup(d)

\* ------------------------------------------------------------ list_jobs
\* round(x, 1) of the percentage 100 * n / d, in tenths of a percent (no
\* n / d of the model lies halfway between two tenths)
RoundTenths(n, d) == (2 * 1000 * n + d) \div (2 * d)

\* line 280: a request calls list_jobs(): with self._lock (acquire), and the
\* comprehension starts over self._jobs.values()
ListLock ==
    /\ lpc = "idle"
    /\ lock = NoThread
    /\ lock' = ListThread
    /\ lpc' = "next"
    /\ lRem' = { jobs[id] : id \in DOMAIN jobs }
    /\ lRet' = NoList
    /\ UNCHANGED <<envVars, uuids, jobs, job, addVars, wpc, walk, engine,
                   fsVars, delVars, lCur, lSnap, gpc, gId, gRet, hist>>

\* the list_jobs thread's step that leaves the lock and the registry alone
LStep(from, to, rem, cur, snap, ret) ==
    /\ lpc = from
    /\ lpc' = to
    /\ lRem' = rem
    /\ lCur' = cur
    /\ lSnap' = snap
    /\ lRet' = ret
    /\ UNCHANGED <<envVars, uuids, mgrVars, job, addVars, wpc, walk, engine,
                   fsVars, delVars, gpc, gId, gRet, hist>>

Min(S) == CHOOSE x \in S : \A y \in S : x <= y

\* line 283: the comprehension's next job; lines 92-95 of its to_dict(): id,
\* magnet, name, status
ListReadStatus ==
    /\ lRem # {}
    /\ LET j == Min(lRem) IN
         LStep("next", "error", lRem \ {j}, j,
               [id |-> job[j].id, status |-> job[j].status], lRet)

\* line 96: "error": self.error
ListReadError ==
    LStep("error", "progress", lRem, lCur,
          [id |-> lSnap.id, status |-> lSnap.status,
           error |-> job[lCur].error], lRet)

\* lines 97-100: progress, download_rate, upload_rate, elapsed_seconds
ListReadProgress ==
    LStep("progress", "eta_test", lRem, lCur,
          [id |-> lSnap.id, status |-> lSnap.status, error |-> lSnap.error,
           progress |-> RoundTenths(job[lCur].progress, TotalWanted),
           download_rate |-> job[lCur].download_rate,
           upload_rate |-> job[lCur].upload_rate,
           elapsed_seconds |-> job[lCur].elapsed_seconds], lRet)

\* line 101: ... if self.eta_seconds is not None else None
ListEtaTest ==
    LStep("eta_test",
          IF job[lCur].eta_seconds = <<>> THEN "started_at" ELSE "eta_value",
          lRem, lCur, lSnap, lRet)

\* line 101: int(self.eta_seconds), a second read of the field: int(None)
\* raises TypeError out of list_jobs, and the with statement releases the lock
ListEtaValue ==
    /\ lpc = "eta_value"
    /\ IF job[lCur].eta_seconds = <<>>
       THEN /\ lpc' = "idle"
            /\ lRem' = {}
            /\ lCur' = 0
            /\ lSnap' = <<>>
            /\ lRet' = [raised |-> "TypeError", jobs |-> <<>>]
            /\ lock' = NoThread
       ELSE /\ lpc' = "started_at"
            /\ lSnap' = [eta_seconds |-> <<job[lCur].eta_seconds[1]
                                           \div job[lCur].eta_seconds[2]>>]
                        @@ lSnap
            /\ UNCHANGED <<lRem, lCur, lRet, lock>>
    /\ UNCHANGED <<envVars, uuids, jobs, job, addVars, wpc, walk, engine,
                   fsVars, delVars, gpc, gId, gRet, hist>>

\* line 103: "started_at"
ListReadStartedAt ==
    LStep("started_at", "completed_at", lRem, lCur,
          [started_at |-> job[lCur].started_at]
          @@ (IF "eta_seconds" \in DOMAIN lSnap THEN lSnap
              ELSE [eta_seconds |-> <<>>] @@ lSnap), lRet)

\* line 104: "completed_at", and the dict joins the list
ListReadCompletedAt ==
    LStep("completed_at", "next", lRem, 0, <<>>,
          [lRet EXCEPT !.jobs =
              DictSet(@, lSnap.id,
                      [completed_at |-> job[lCur].completed_at] @@ lSnap)])

\* line 283: the comprehension is done: return, and the lock's release
ListReturn ==
    /\ lpc = "next"
    /\ lRem = {}
    /\ lpc' = "idle"
    /\ lock' = NoThread
    /\ UNCHANGED <<envVars, uuids, jobs, job, addVars, wpc, walk, engine,
                   fsVars, delVars, lRem, lCur, lSnap, lRet, gpc, gId, gRet,
                   hist>>

ListJobs ==
    \/ ListLock
    \/ ListReadStatus
    \/ ListReadError
    \/ ListReadProgress
    \/ ListEtaTest
    \/ ListEtaValue
    \/ ListReadStartedAt
    \/ ListReadCompletedAt
    \/ ListReturn

\* ------------------------------------------------------------ get_job
\* line 286: a request calls get_job(job_id): with self._lock (acquire)
GetLock ==
    /\ gpc = "idle"
    /\ lock = NoThread
    /\ lock' = GetThread
    /\ gpc' = "get"
    /\ \E id \in RequestIds : gId' = id
    /\ gRet' = 0
    /\ UNCHANGED <<envVars, uuids, jobs, job, addVars, wpc, walk, engine,
                   fsVars, delVars, lpc, lRem, lCur, lSnap, lRet, hist>>

\* line 287: return self._jobs.get(job_id), and the lock's release
GetRead ==
    /\ gpc = "get"
    /\ gRet' = IF gId \in DOMAIN jobs THEN jobs[gId] ELSE 0
    /\ gId' = UnknownId
    /\ gpc' = "idle"
    /\ lock' = NoThread
    /\ UNCHANGED <<envVars, uuids, jobs, job, addVars, wpc, walk, engine,
                   fsVars, delVars, lpc, lRem, lCur, lSnap, lRet, hist>>

GetJob ==
    \/ GetLock
    \/ GetRead

\* ------------------------------------------------------------ streaming: inputs
\* what no action of streaming.py writes
torrentVars == <<libtorrent_available, uuids, jobs, lock, job, addPc, addTemp,
                 wpc, walk, engine, temp, dest, dpc, dId, dJob, dRet, lpc,
                 lRem, lCur, lSnap, lRet, gpc, gId, gRet, hist, adminVars>>

\* a header value is the sequence of its characters
BytesUnit == <<"b", "y", "t", "e", "s">>
\* the characters after the unit: separators, three digits, a letter, a sign
Chars == {"=", "-", "0", "1", "2", "a", "+"}
Tails == UNION { [1..k -> Chars] : k \in 0..MaxTail }
\* Range header values: the unit "bytes" or "x", then up to MaxTail characters
Headers == { u \o t : u \in {BytesUnit, <<"x">>}, t \in Tails }
\* request.headers.get("Range", None): <<>> is None, <<h>> the value h
RangeHeaders == {<<>>} \cup { <<h>> : h \in Headers }
\* no header, an empty one, "bytes=0-", "bytes=1-1"
FewRangeHeaders ==
    { <<>>, << <<>> >>, << BytesUnit \o <<"=", "0", "-">> >>,
      << BytesUnit \o <<"=", "1", "-", "1">> >> }
FileSizes == 0..MaxFileSize
\* the quality argument, or the ?quality of the URL
Qualities == {NoQuality, 360, 480, 720, 1080}
\* AppConfig.transcoding_backend as stored (None: no row or no value)
ConfigBackends == {"None", "cpu", "NVIDIA", "intel", "amd", "vulkan"}

\* the bytes of a file of the given size: byte i has value i
FileBytes(size) == [i \in 1..size |-> i]
\* f.read(n) at position pos of that file
FileRead(size, pos, n) == SubSeq(FileBytes(size), pos + 1, Min({pos + n, size}))

\* the calls range_request_response(video_path, content_type, quality) that
\* do not come from the route: every header goes with quality None, every
\* quality with a few headers
DirectCalls ==
    [route : {FALSE}, banned : {FALSE}, query : {NoQuality}, exists : {TRUE},
     size : FileSizes, range : RangeHeaders, quality : {NoQuality},
     ffmpeg : {TRUE}]
    \cup
    [route : {FALSE}, banned : {FALSE}, query : {NoQuality},
     exists : BOOLEAN, size : FileSizes, range : FewRangeHeaders,
     quality : Qualities, ffmpeg : BOOLEAN]

\* GET /stream/<video_id>[?quality=q]: line 410 passes no quality on
RouteCalls ==
    [route : {TRUE}, banned : BOOLEAN, query : Qualities, exists : BOOLEAN,
     size : FileSizes, range : FewRangeHeaders, quality : {NoQuality},
     ffmpeg : BOOLEAN]

\* ------------------------------------------------------------ streaming: Range
\* str.split(sep): the pieces of s between the occurrences of c
RECURSIVE Split(_, _)
Split(s, c) ==
    IF \A i \in 1..Len(s) : s[i] # c THEN <<s>>
    ELSE LET i == CHOOSE k \in 1..Len(s) :
                      s[k] = c /\ \A m \in 1..(k - 1) : s[m] # c
         IN <<SubSeq(s, 1, i - 1)>> \o Split(SubSeq(s, i + 1, Len(s)), c)

\* the decimal digits
DigitChars == <<"0", "1", "2", "3", "4", "5", "6", "7", "8", "9">>
IsDigit(c) == \E d \in 0..9 : DigitChars[d + 1] = c
DigitValue(c) == CHOOSE d \in 0..9 : DigitChars[d + 1] = c

\* s without the sign int() accepts in front of the digits
Unsigned(s) == IF s # <<>> /\ s[1] = "+" THEN Tail(s) ELSE s

\* int(s) does not raise ValueError: an optional sign, then digits (of the
\* characters of the model; a "-" never reaches int, see Split)
IsInt(s) ==
    /\ Unsigned(s) # <<>>
    /\ \A i \in 1..Len(Unsigned(s)) : IsDigit(Unsigned(s)[i])

RECURSIVE DigitsValue(_)
DigitsValue(d) ==
    IF d = <<>> THEN 0
    ELSE 10 * DigitsValue(SubSeq(d, 1, Len(d) - 1)) + DigitValue(d[Len(d)])

\* int(s) where it does not raise
IntOf(s) == DigitsValue(Unsigned(s))

\* ParseRange without line 71: the end is not clamped to the file
ParseRangeUnclamped(h, file_size) ==
    LET parts == Split(h, "=")
        bad(code) == [status |-> code, start |-> 0, end |-> 0]
    IN  IF Len(parts) # 2 THEN bad(416)
        ELSE IF parts[1] # BytesUnit THEN bad(416)
        ELSE LET ps == Split(parts[2], "-")
             IN  IF Len(ps) # 2 THEN bad(500)
                 ELSE IF \/ ps[1] # <<>> /\ ~IsInt(ps[1])
                         \/ ps[2] # <<>> /\ ~IsInt(ps[2])
                 THEN bad(416)
                 ELSE LET start == IF ps[1] # <<>> THEN IntOf(ps[1]) ELSE 0
                          end == IF ps[2] # <<>> THEN IntOf(ps[2])
                                 ELSE file_size - 1
                      IN  IF start >= file_size THEN bad(416)
                          ELSE [status |-> 206, start |-> start,
                                end |-> end]

\* ParseRange with line 68 as start > file_size
ParseRangeStartBeyond(h, file_size) ==
    LET parts == Split(h, "=")
        bad(code) == [status |-> code, start |-> 0, end |-> 0]
    IN  IF Len(parts) # 2 THEN bad(416)
        ELSE IF parts[1] # BytesUnit THEN bad(416)
        ELSE LET ps == Split(parts[2], "-")
             IN  IF Len(ps) # 2 THEN bad(500)
                 ELSE IF \/ ps[1] # <<>> /\ ~IsInt(ps[1])
                         \/ ps[2] # <<>> /\ ~IsInt(ps[2])
                 THEN bad(416)
                 ELSE LET start == IF ps[1] # <<>> THEN IntOf(ps[1]) ELSE 0
                          end == IF ps[2] # <<>> THEN IntOf(ps[2])
                                 ELSE file_size - 1
                      IN  IF start > file_size THEN bad(416)
                          ELSE [status |-> 206, start |-> start,
                                end |-> Min({end, file_size - 1})]

\* lines 53-72: what the Range header h makes of a file of file_size bytes:
\* status 416 (abort), 500 (the ValueError of line 61's unpacking, which no
\* except clause catches) or 206 with start and the clamped end
ParseRange(h, file_size) ==
    LET parts == Split(h, "=")
        bad(code) == [status |-> code, start |-> 0, end |-> 0]
    IN  IF Len(parts) # 2 THEN bad(416)
        ELSE IF parts[1] # BytesUnit THEN bad(416)
        ELSE LET ps == Split(parts[2], "-")
             IN  IF Len(ps) # 2 THEN bad(500)
                 ELSE IF \/ ps[1] # <<>> /\ ~IsInt(ps[1])
                         \/ ps[2] # <<>> /\ ~IsInt(ps[2])
                 THEN bad(416)
                 ELSE LET start == IF ps[1] # <<>> THEN IntOf(ps[1]) ELSE 0
                          end == IF ps[2] # <<>> THEN IntOf(ps[2])
                                 ELSE file_size - 1
                      IN  IF start >= file_size THEN bad(416)
                          ELSE [status |-> 206, start |-> start,
                                end |-> Min({end, file_size - 1})]

\* abort(code), and an exception that reaches Flask (code 500)
Abort(code) ==
    [status |-> code, by |-> IF code = 500 THEN "exception" ELSE "abort",
     content_range |-> <<>>, content_length |-> <<>>,
     accept_ranges |-> FALSE]

\* if range_header: a header that is there and not empty
Truthy(range) == range # <<>> /\ range[1] # <<>>

\* lines 46-113: the response of the Range Streamer and its generator
RangeResponse(r) ==
    IF Truthy(r.range)
    THEN LET p == ParseRange(r.range[1], r.size)
             length == p.end - p.start + 1
         IN  IF p.status # 206
             THEN [resp |-> Abort(p.status), gen |-> NoGenerator]
             ELSE [resp |-> [status |-> 206, by |-> "range",
                             content_range |-> <<p.start, p.end, r.size>>,
                             content_length |-> <<length>>,
                             accept_ranges |-> TRUE],
                   gen |-> [kind |-> "range", state |-> "created",
                            pos |-> p.start, remaining |-> length,
                            sent |-> <<>>]]
    ELSE [resp |-> [status |-> 200, by |-> "range", content_range |-> <<>>,
                    content_length |-> <<r.size>>, accept_ranges |-> TRUE],
          gen |-> [kind |-> "full", state |-> "created", pos |-> 0,
                   remaining |-> 0, sent |-> <<>>]]

\* ------------------------------------------------------------ streaming: handler
\* lines 38-113 of range_request_response for the call r, up to the response
\* or to the first spawn of the encoder
Serve(r) ==
    /\ sreq' = r
    /\ IF ~r.exists
       THEN /\ sresp' = Abort(404)
            /\ sgen' = NoGenerator
            /\ spc' = "ended"
       ELSE IF r.quality \in {1080, 720, 480} /\ r.ffmpeg
       THEN /\ spc' = "spawn"
            /\ UNCHANGED <<sresp, sgen>>
       ELSE /\ sresp' = RangeResponse(r).resp
            /\ sgen' = RangeResponse(r).gen
            /\ spc' = IF RangeResponse(r).gen = NoGenerator
                      THEN "ended" ELSE "stream"
    /\ UNCHANGED <<torrentVars, sproc>>

\* range_request_response called with a quality argument
RangeRequest ==
    /\ spc = "idle"
    /\ \E r \in DirectCalls : Serve(r)

\* main.py lines 389-410: stream_video; a banned user is redirected, anyone
\* else gets range_request_response(video_path, content_type)
StreamVideo ==
    /\ spc = "idle"
    /\ \E r \in RouteCalls :
          IF r.banned
          THEN /\ sreq' = r
               /\ sresp' = [Abort(302) EXCEPT !.by = "redirect"]
               /\ spc' = "ended"
               /\ UNCHANGED <<torrentVars, sgen, sproc>>
          ELSE Serve(r)

\* ------------------------------------------------------------ streaming: encoder
\* lines 261-270: the configured backend, "cpu" when unset or unknown
GetTranscodingBackend(cfg) ==
    LET backend == IF cfg = "None" THEN "cpu" ELSE Lower(cfg)
    IN  IF backend \in {"cpu", "intel", "amd", "nvidia"} THEN backend
        ELSE "cpu"

\* lines 381-389: the response around the encoder's output
TranscodedResponse ==
    [status |-> 200, by |-> "transcode", content_range |-> <<>>,
     content_length |-> <<>>, accept_ranges |-> FALSE]

TranscodeGenerator ==
    [kind |-> "transcode", state |-> "created", pos |-> 0, remaining |-> 0,
     sent |-> <<>>]

\* after a Popen call for backend that did (ok) or did not start a process:
\* lines 353-361 and 381-389. next is where a failed spawn leads: a retry, or
\* the Range Streamer's response for the file
AfterSpawn(backend, ok, retry) ==
    /\ sproc' = [sproc EXCEPT !.spawns = Append(@, backend), !.started = ok]
    /\ IF ok
       THEN /\ sresp' = TranscodedResponse
            /\ sgen' = TranscodeGenerator
            /\ spc' = "stream"
       ELSE IF retry
       THEN /\ spc' = "spawn_cpu"
            /\ UNCHANGED <<sresp, sgen>>
       ELSE /\ sresp' = RangeResponse(sreq).resp
            /\ sgen' = RangeResponse(sreq).gen
            /\ spc' = IF RangeResponse(sreq).gen = NoGenerator
                      THEN "ended" ELSE "stream"
    /\ UNCHANGED <<torrentVars, sreq>>

\* StartProcess without the retry: a failed spawn goes to the Range Streamer
StartProcessNoRetry ==
    /\ spc = "spawn"
    /\ \E cfg \in ConfigBackends, ok \in BOOLEAN :
          AfterSpawn(GetTranscodingBackend(cfg), ok, FALSE)

\* lines 336-350: the backend is read and the encoder spawned for it; Popen
\* succeeds or raises
StartProcess ==
    /\ spc = "spawn"
    /\ \E cfg \in ConfigBackends, ok \in BOOLEAN :
          AfterSpawn(GetTranscodingBackend(cfg), ok,
                     GetTranscodingBackend(cfg) # "cpu")

\* lines 353-356: the second spawn, for the cpu backend
StartProcessCpu ==
    /\ spc = "spawn_cpu"
    /\ \E ok \in BOOLEAN : AfterSpawn("cpu", ok, FALSE)

\* ------------------------------------------------------------ streaming: body
\* lines 370-379: the finally clause of the transcoding generate()
KillEncoder(p) == [p EXCEPT !.closes = @ + 1, !.kills = @ + 1]

\* lines 74-84: next() on generate() of a 206 response
RangeGenNext ==
    /\ spc = "stream"
    /\ sgen.kind = "range"
    /\ sgen.state \in {"created", "suspended"}
    /\ LET chunk == FileRead(sreq.size, sgen.pos,
                             Min({ChunkSize, sgen.remaining}))
       IN  IF sgen.remaining > 0 /\ chunk # <<>>
           THEN sgen' = [sgen EXCEPT !.state = "suspended",
                                     !.pos = @ + Len(chunk),
                                     !.remaining = @ - Len(chunk),
                                     !.sent = @ \o chunk]
           ELSE sgen' = [sgen EXCEPT !.state = "exhausted"]
    /\ UNCHANGED <<torrentVars, sreq, spc, sresp, sproc>>

\* lines 97-103: next() on generate_full() of a 200 response
FullGenNext ==
    /\ spc = "stream"
    /\ sgen.kind = "full"
    /\ sgen.state \in {"created", "suspended"}
    /\ LET data == FileRead(sreq.size, sgen.pos, ChunkSize)
       IN  IF data # <<>>
           THEN sgen' = [sgen EXCEPT !.state = "suspended",
                                     !.pos = @ + Len(data),
                                     !.sent = @ \o data]
           ELSE sgen' = [sgen EXCEPT !.state = "exhausted"]
    /\ UNCHANGED <<torrentVars, sreq, spc, sresp, sproc>>

\* lines 363-379: next() on the transcoding generate(): the pipe gives a
\* chunk, or nothing because the encoder ended (as planned or not), and
\* then the finally clause runs
TranscodeGenNext ==
    /\ spc = "stream"
    /\ sgen.kind = "transcode"
    /\ sgen.state \in {"created", "suspended"}
    /\ \/ /\ sproc.written < MaxOutput
          /\ sproc' = [sproc EXCEPT !.written = @ + 1]
          /\ sgen' = [sgen EXCEPT !.state = "suspended",
                                   !.sent = Append(@, sproc.written + 1)]
       \/ /\ sproc' = KillEncoder(sproc)
          /\ sgen' = [sgen EXCEPT !.state = "exhausted"]
    /\ UNCHANGED <<torrentVars, sreq, spc, sresp>>

\* the server closes the response: after the last chunk, or at any moment
\* before it when the caller has gone. close() raises GeneratorExit at the
\* yield of a suspended generator, which runs its finally clause; a
\* generator that was never started has no frame to unwind and runs nothing
GenClose ==
    /\ spc = "stream"
    /\ sgen' = [sgen EXCEPT !.state = "closed"]
    /\ sproc' = IF sgen.kind = "transcode" /\ sgen.state = "suspended"
                THEN KillEncoder(sproc) ELSE sproc
    /\ spc' = "ended"
    /\ UNCHANGED <<torrentVars, sreq, sresp>>

\* ------------------------------------------------------------ admin views
\* what the admin views leave alone: the one manager and the jobs modelled
\* step by step above
runVars == <<jobs, lock, job, addPc, addTemp, wpc, walk, engine, temp, dest,
             dpc, dId, dJob, dRet, lpc, lRem, lCur, lSnap, lRet, gpc, gId,
             gRet, hist>>

\* request.form.get("magnet_link") as the browser sends it
FormMagnets == {" ", " magnet:ok "}

\* str.strip() on those
Strip(s) ==
    CASE s = " " -> ""
      [] s = " magnet:ok " -> "magnet:ok"
      [] OTHER -> s

\* the ids of the jobs held by any manager built so far
AllJobIds == UNION { managers[m] : m \in DOMAIN managers }

\* the requests a client can send to the three torrent routes of admin.py
AdminRequests ==
    { [route |-> "torrents POST", magnet_link |-> m, job_id |-> UnknownId] :
          m \in FormMagnets }
    \cup { [route |-> r, magnet_link |-> "", job_id |-> UnknownId] :
               r \in {"torrents GET", "torrents_status"} }
    \cup { [route |-> "torrents_delete", magnet_link |-> "", job_id |-> id] :
               id \in {UnknownId} \cup AllJobIds }

\* the step of an admin thread that touches only its own position and locals
AStep(r, from, to, newMgr) ==
    /\ apc[r] = from
    /\ apc' = [apc EXCEPT ![r] = to]
    /\ mgr' = [mgr EXCEPT ![r] = newMgr]
    /\ UNCHANGED <<libtorrent_available, streamVars, uuids, runVars,
                   extensions, managers, request, response>>

\* a request arrives and a thread of the server starts its view
AdminRequest(r) ==
    /\ apc[r] = "idle"
    /\ \E q \in AdminRequests : request' = [request EXCEPT ![r] = q]
    /\ response' = [response EXCEPT ![r] = NoAdminResponse]
    /\ apc' = [apc EXCEPT ![r] = "get"]
    /\ mgr' = [mgr EXCEPT ![r] = NoManager]
    /\ UNCHANGED <<libtorrent_available, streamVars, uuids, runVars,
                   extensions, managers>>

\* lines 57-58: mgr = current_app.extensions.get("torrent_manager");
\* if mgr is None
GetExtension(r) ==
    AStep(r, "get", IF extensions = NoManager THEN "construct" ELSE "view",
          extensions)

\* lines 59-63 and 257-261: mgr = TorrentManager(temp_root=temp_root), a new
\* object with an empty _jobs
ConstructManager(r) ==
    /\ apc[r] = "construct"
    /\ managers' = Append(managers, {})
    /\ mgr' = [mgr EXCEPT ![r] = Len(managers) + 1]
    /\ apc' = [apc EXCEPT ![r] = "store"]
    /\ UNCHANGED <<libtorrent_available, streamVars, uuids, runVars,
                   extensions, request, response>>

\* line 64: current_app.extensions["torrent_manager"] = mgr
StoreExtension(r) ==
    /\ apc[r] = "store"
    /\ extensions' = mgr[r]
    /\ apc' = [apc EXCEPT ![r] = "view"]
    /\ UNCHANGED <<libtorrent_available, streamVars, uuids, runVars,
                   managers, mgr, request, response>>

\* lines 672-689 and 263-277: POST /torrents: the redirect without a job
\* when libtorrent is missing or the stripped magnet link is empty, else
\* mgr.add_job(...), which draws the temp directory's name and the job's id
\* and registers the job in mgr
TorrentsPost(r) ==
    /\ apc[r] = "view"
    /\ request[r].route = "torrents POST"
    /\ IF ~libtorrent_available \/ Strip(request[r].magnet_link) = ""
       THEN UNCHANGED <<uuids, managers>>
       ELSE /\ uuids + 2 <= 2 * MaxJobs
            /\ uuids' = uuids + 2
            /\ managers' = [managers EXCEPT ![mgr[r]] = @ \cup {uuids + 2}]
    /\ response' = [response EXCEPT ![r] = [NoAdminResponse EXCEPT
                                             !.by = "redirect"]]
    /\ apc' = [apc EXCEPT ![r] = "idle"]
    /\ UNCHANGED <<libtorrent_available, streamVars, runVars,
                   extensions, mgr, request>>

\* lines 691-699, 708-709 and 279-283: GET /torrents and /torrents/status:
\* jobs = mgr.list_jobs()
TorrentsList(r) ==
    /\ apc[r] = "view"
    /\ request[r].route \in {"torrents GET", "torrents_status"}
    /\ response' = [response EXCEPT ![r] = [NoAdminResponse EXCEPT
                                             !.by = "list_jobs",
                                             !.jobs = managers[mgr[r]]]]
    /\ apc' = [apc EXCEPT ![r] = "idle"]
    /\ UNCHANGED <<libtorrent_available, streamVars, uuids, runVars,
                   extensions, managers, mgr, request>>

\* lines 722-733 and 289-302: POST /torrents/<job_id>/delete:
\* ok = mgr.delete_job(job_id)
TorrentsDelete(r) ==
    /\ apc[r] = "view"
    /\ request[r].route = "torrents_delete"
    /\ managers' = [managers EXCEPT ![mgr[r]] = @ \ {request[r].job_id}]
    /\ response' = [response EXCEPT ![r] = [NoAdminResponse EXCEPT
                         !.by = "delete_job",
                         !.ok = request[r].job_id \in managers[mgr[r]]]]
    /\ apc' = [apc EXCEPT ![r] = "idle"]
    /\ UNCHANGED <<libtorrent_available, streamVars, uuids, runVars,
                   extensions, mgr, request>>

\* lines 113-115 and 305-309: the worker of a job that reached a terminal
\* state has its own manager drop it
AdminJobFinished(m, id) ==
    /\ m \in DOMAIN managers
    /\ id \in managers[m]
    /\ managers' = [managers EXCEPT ![m] = @ \ {id}]
    /\ UNCHANGED <<libtorrent_available, streamVars, uuids, runVars,
                   extensions, apc, mgr, request, response>>

\* one admin request, from its arrival to its response
Admin(r) ==
    \/ AdminRequest(r)
    \/ GetExtension(r)
    \/ ConstructManager(r)
    \/ StoreExtension(r)
    \/ TorrentsPost(r)
    \/ TorrentsList(r)
    \/ TorrentsDelete(r)

\* a request served by streaming.py
Stream ==
    \/ RangeRequest
    \/ StreamVideo
    \/ StartProcess
    \/ StartProcessCpu
    \/ RangeGenNext
    \/ FullGenNext
    \/ TranscodeGenNext
    \/ GenClose

Next ==
    \/ \E j \in Jobs :
           \/ AddJob(j)
           \/ Run(j)
           \/ WPollIdle(j)
           \/ EngineDownload(j)
    \/ \E d \in Deleters : DeleteJob(d)


Spec == Init /\ [][Next]_vars

\* one job, with every operation of TorrentJob and TorrentManager on it and
\* every report the engine can make
NextJob ==
    \/ AddJob(1)
    \/ Run(1)
    \/ WPoll(1)
    \/ EngineDownload(1)
    \/ Cancel(1)
    \/ \E d \in Deleters : DeleteJob(d)
    \/ ListJobs

SpecJob == Init /\ [][NextJob]_vars

\* one job, with every operation of TorrentManager on it
NextManager ==
    \/ AddJob(1)
    \/ Run(1)
    \/ WPoll(1)
    \/ EngineDownload(1)
    \/ \E d \in Deleters : DeleteJob(d)
    \/ ListJobs
    \/ GetJob

SpecManager == Init /\ [][NextManager]_vars

\* one job whose worker runs while add_job has not returned yet
NextNotify ==
    \/ AddJobReturning(1)
    \/ Run(1)
    \/ WPollIdle(1)
    \/ EngineDownload(1)
    \/ \E d \in Deleters : DeleteJob(d)

SpecNotify == Init /\ [][NextNotify]_vars

\* one request to streaming.py
SpecStream == Init /\ [][Stream]_vars

\* the torrent routes of admin.py served by the threads of the server, and
\* the workers of the jobs they started coming to their end
NextAdmin ==
    \/ \E r \in Requests : Admin(r)
    \/ \E m \in Requests, id \in Uuids : AdminJobFinished(m, id)

SpecAdmin == Init /\ [][NextAdmin]_vars

\* ------------------------------------------------------------ properties
\* the worker thread of job j has ended
Ended(j) == wpc[j] = "done"

StatusEdges ==
    { <<"queued", "downloading">>, <<"downloading", "processing">>,
      <<"processing", "completed">>, <<"downloading", "cancelled">>,
      <<"queued", "error">>, <<"downloading", "error">>,
      <<"processing", "error">> }

\* C2: the status of a job changes only along the edges queued->downloading,
\* downloading->processing, processing->completed, downloading->cancelled
\* and {queued, downloading, processing}->error; a status of completed, error
\* or cancelled never changes again.
C2_StatusEdges ==
    [][\A j \in Jobs :
          job'[j].status # job[j].status =>
              <<job[j].status, job'[j].status>> \in StatusEdges]_vars

\* a run that went through processing and ended completed
C2_Witness ==
    \E j \in Jobs :
        /\ Ended(j)
        /\ job[j].status = "completed"
        /\ hist[j].processed # {}

\* the fields of a job that to_dict shows
Observable(r) ==
    <<r.status, r.error, r.progress, r.download_rate, r.upload_rate,
      r.elapsed_seconds, r.eta_seconds, r.started_at, r.completed_at>>

\* C3 as stated: once the status of a job is completed, error or cancelled,
\* none of its observable fields is written again.
C3_NoWriteAfterTerminal ==
    [][\A j \in Jobs :
          job[j].status \in Terminal =>
              Observable(job'[j]) = Observable(job[j])]_vars

\* the torrent's file f of job j is in dest_dir, under its own name or a
\* name_k.ext variant of it
InDest(j, f) ==
    \E n \in DOMAIN dest :
        /\ dest[n] = Content(j, f)
        /\ n[1] = f.base
        /\ n[3] = f.ext

\* C4 as stated: whenever a job is completed, every allow-listed file that
\* was under its temp directory when it entered processing is in dest_dir
\* under its own name or a name_k.ext variant, and its temp directory is gone.
C4_CompletedKeepsFiles ==
    \A j \in Jobs :
        job[j].status = "completed" =>
            /\ \A f \in hist[j].processed : InDest(j, f)
            /\ ~temp[job[j].temp_dir].exists

\* the first free name for base and ext in the directory d: the name itself,
\* or name_k.ext with the least k >= 1 that is free
FirstFree(d, base, ext) ==
    LET k == CHOOSE n \in 0..Cardinality(DOMAIN d) :
                 /\ DestName(base, n, ext) \notin DOMAIN d
                 /\ \A m \in 0..(n - 1) : DestName(base, m, ext) \in DOMAIN d
    IN DestName(base, k, ext)

\* C5 as stated: a moved file is stored under the first free name, and no
\* file that is in dest_dir is ever overwritten or removed by a job.
C5_NoOverwrite ==
    [][/\ \A n \in DOMAIN dest : n \in DOMAIN dest' /\ dest'[n] = dest[n]
       /\ \A j \in Jobs :
              (wpc[j] = "move" /\ wpc'[j] = "file") =>
                  walk[j].cur[2] = FirstFree(dest, walk[j].cur[1].base,
                                             walk[j].cur[1].ext)]_vars

\* add_job has put the job into the registry
Registered(j) == addPc[j] \in {"start", "return", "returned"}

\* the registry holds the job under its id
InRegistry(j) ==
    /\ Created(j)
    /\ job[j].id \in DOMAIN jobs
    /\ jobs[job[j].id] = j

\* the operations that removed job j from the registry so far
Removers(j) == { hist[j].removals[i] : i \in 1..Len(hist[j].removals) }

Consistent(snap) ==
    /\ snap.status = "completed" =>
          (snap.completed_at /\ snap.progress = 1000)
    /\ snap.status = "error" => snap.error # "None"
    /\ snap.status = "downloading" => snap.started_at

\* C8 as stated: every snapshot list_jobs returns shows the job as it was at
\* one instant: never completed without completed_at or with progress below
\* 100, never error without the error text, never downloading without
\* started_at.
C8_SnapshotsConsistent ==
    \A id \in DOMAIN lRet.jobs : Consistent(lRet.jobs[id])

\* the step a thread that holds the lock can take
HolderStep ==
    \/ \E j \in Jobs : AddRegister(j) \/ WJobFinished(j)
    \/ \E d \in Deleters : DeletePop(d)
    \/ ListReadStatus \/ ListReadError \/ ListReadProgress \/ ListEtaTest
    \/ ListEtaValue \/ ListReadStartedAt \/ ListReadCompletedAt
    \/ ListReturn
    \/ GetRead

\* C9: every thread that reads or writes the registry holds the lock while
\* it does; the lock is held only there, never while a worker is started or
\* joined or files are removed; and its holder can always go on, so that no
\* notification waits for the lock forever.
C9_LockDiscipline ==
    /\ [](\A j \in Jobs :
            /\ (addPc[j] = "register") <=> (lock = AddThread(j))
            /\ (wpc[j] = "finished") <=> (lock = Worker(j)))
    /\ [](\A d \in Deleters : (dpc[d] = "pop") <=> (lock = DelThread(d)))
    /\ []((lpc # "idle") <=> (lock = ListThread))
    /\ []((gpc = "get") <=> (lock = GetThread))
    /\ [](lock # NoThread => ENABLED HolderStep)
    /\ [][jobs' # jobs => lock # NoThread]_vars

\* a worker waits to notify while list_jobs holds the lock
C9_Witness ==
    \E j \in Jobs :
        /\ wpc[j] = "notify"
        /\ lock = ListThread
        /\ lpc = "progress"

\* C10: concurrent add_job calls give their jobs pairwise distinct ids and
\* pairwise distinct temp directories, and register every one of them.
C10_DistinctJobs ==
    /\ \A i, j \in Jobs :
          i # j =>
              /\ (Created(i) /\ Created(j)) => job[i].id # job[j].id
              /\ (addTemp[i] # 0 /\ addTemp[j] # 0) => addTemp[i] # addTemp[j]
    /\ \A j \in Jobs :
          /\ Created(j) => job[j].temp_dir = addTemp[j]
          /\ (Registered(j) /\ hist[j].removals = <<>>) => InRegistry(j)

\* every add_job call has registered its job and none has returned
C10_Witness ==
    \A j \in Jobs : addPc[j] = "start" /\ InRegistry(j)

\* C11: a delete_job whose id is not in the registry returns False, and
\* neither its taking of the lock nor its pop changes the registry, a job's
\* fields or cancel flag, a temp directory or dest_dir.
C11_UnknownIdNoEffect ==
    [][\A d \in Deleters :
          /\ (dpc[d] = "idle" /\ dpc'[d] = "pop") =>
                 /\ jobs' = jobs /\ job' = job
                 /\ temp' = temp /\ dest' = dest
          /\ (dpc[d] = "pop" /\ dpc'[d] # "pop"
                 /\ dId[d] \notin DOMAIN jobs) =>
                 /\ dpc'[d] = "idle"
                 /\ dRet'[d] = "False"
                 /\ jobs' = jobs /\ job' = job
                 /\ temp' = temp /\ dest' = dest]_vars

\* a delete_job has returned False while a job with files in its temp
\* directory is in the registry
C11_Witness ==
    \E d \in Deleters, j \in Jobs :
        /\ dpc[d] = "idle"
        /\ dRet[d] = "False"
        /\ InRegistry(j)
        /\ temp[job[j].temp_dir].files # {}

\* C12 as stated: a delete_job of a registered id returns True, no list_jobs
\* result after it holds the id, and no step of it changes dest_dir.
C12_DeleteKnownReturnsTrue ==
    [][/\ \A d \in Deleters :
              /\ (dpc[d] \in {"cancel", "join", "cleanup"}
                     /\ dpc'[d] = "idle") => dRet'[d] = "True"
              /\ dpc'[d] # dpc[d] => dest' = dest
       /\ (lpc # "idle" /\ lpc' = "idle") =>
              \A j \in Jobs :
                  "delete_job" \in Removers(j) =>
                      job[j].id \notin DOMAIN lRet'.jobs]_vars

RangeAnswered ==
    /\ sreq.exists
    /\ sresp.by \in {"range", "abort", "exception"}

\* C14 as stated: the encoder of a transcoded response is never killed and
\* its pipe never closed more than once, and when the stream has ended, in
\* whichever way, both have happened exactly once.
C14_EncoderKilledOnce ==
    /\ sproc.kills <= 1
    /\ sproc.closes <= 1
    /\ (sresp.by = "transcode" /\ spc = "ended") =>
           (sproc.kills = 1 /\ sproc.closes = 1)

\* C15: a request makes at most two spawn attempts, the second only after a
\* first one for a non-cpu backend and then for cpu; once the response is
\* there, it is the transcoded one if a spawn succeeded, and otherwise the
\* last attempt was for cpu and the response is the Range Streamer's for the
\* file.
C15_SpawnFallback ==
    /\ Len(sproc.spawns) <= 2
    /\ Len(sproc.spawns) = 2 =>
           (sproc.spawns[1] # "cpu" /\ sproc.spawns[2] = "cpu")
    /\ (spc = "spawn_cpu") =>
           (Len(sproc.spawns) = 1 /\ sproc.spawns[1] # "cpu")
    /\ (sproc.spawns # <<>> /\ spc \in {"stream", "ended"}) =>
           IF sproc.started
           THEN sresp = TranscodedResponse
           ELSE /\ sproc.spawns[Len(sproc.spawns)] = "cpu"
                /\ sresp = RangeResponse(sreq).resp

\* after a failed spawn for a hardware backend and a failed one for cpu the
\* request got the Range Streamer's 206
C15_Witness ==
    /\ Len(sproc.spawns) = 2
    /\ ~sproc.started
    /\ sresp.by = "range"
    /\ sresp.status = 206

\* C16 as stated: a request to the route goes to the Transcode Pipeline
\* exactly when its ?quality is 480, 720 or 1080 and the encoder is there,
\* and to the Range Streamer otherwise.
C16_QualityRouted ==
    (sreq.route /\ ~sreq.banned /\ sreq.exists /\ spc # "idle") =>
        IF sreq.query \in {480, 720, 1080} /\ sreq.ffmpeg
        THEN spc \in {"spawn", "spawn_cpu"} \/ sproc.spawns # <<>>
        ELSE sproc.spawns = <<>> /\ RangeAnswered

\* the decimal numeral of n
RECURSIVE Decimal(_)
Decimal(n) ==
    IF n < 10 THEN <<DigitChars[n + 1]>>
    ELSE Decimal(n \div 10) \o <<DigitChars[(n % 10) + 1]>>

\* the numbers whose numerals can be in a header of the model
Numbers == 0..22
\* the headers "bytes=s-e" and "bytes=s-"
HeaderFromTo(s, e) ==
    BytesUnit \o <<"=">> \o Decimal(s) \o <<"-">> \o Decimal(e)
HeaderFrom(s) == BytesUnit \o <<"=">> \o Decimal(s) \o <<"-">>
\* every <<s, e, "bytes=s-e">> and <<s, "bytes=s-">>
FromToHeaders == { <<s, e, HeaderFromTo(s, e)>> : s, e \in Numbers }
FromHeaders == { <<s, HeaderFrom(s)>> : s \in Numbers }

\* C17: for a file of size S and a header bytes=s-e with 0 <= s < S and
\* e >= s, the answer is 206 with Content-Range bytes s-e'/S where
\* e' = min(e, S-1), Content-Length e'-s+1, and the chunks sent are always a
\* prefix of the file's bytes s..e' and all of them once the generator is
\* exhausted.
C17_RangeBody ==
    \A t \in FromToHeaders :
        (/\ RangeAnswered
         /\ sreq.range = <<t[3]>>
         /\ t[1] < sreq.size /\ t[2] >= t[1]) =>
            LET s == t[1]
                e == t[2]
                e1 == Min({e, sreq.size - 1})
                slice == SubSeq(FileBytes(sreq.size), s + 1, e1 + 1)
            IN  /\ sresp.status = 206
                /\ sresp.content_range = <<s, e1, sreq.size>>
                /\ sresp.content_length = <<e1 - s + 1>>
                /\ sgen.kind = "range"
                /\ Len(sgen.sent) <= Len(slice)
                /\ sgen.sent = SubSeq(slice, 1, Len(sgen.sent))
                /\ sgen.state = "exhausted" => sgen.sent = slice

\* bytes=0-2 of a file of two bytes was answered with bytes 0-1/2 and the
\* whole body was sent
C17_Witness ==
    /\ sreq.size = 2
    /\ sreq.range = <<HeaderFromTo(0, 2)>>
    /\ sresp.content_range = <<0, 1, 2>>
    /\ sgen.state = "exhausted"
    /\ sgen.sent = <<1, 2>>

\* C18: for a file of size S >= 0 and a header bytes=s- or bytes=s-e with
\* s >= S, the answer is 416 and there is no body generator.
C18_StartBeyondEnd ==
    \A t \in FromHeaders \cup FromToHeaders :
        (/\ RangeAnswered
         /\ sreq.range = <<t[Len(t)]>>
         /\ t[1] >= sreq.size) =>
            /\ sresp.status = 416
            /\ sgen = NoGenerator
            /\ spc = "ended"

\* bytes=0- of an empty file was answered 416
C18_Witness ==
    /\ RangeAnswered
    /\ sreq.size = 0
    /\ sreq.range = <<HeaderFrom(0)>>
    /\ sresp.status = 416

\* C19 as stated: a header bytes=-N is answered 416, whatever N and the
\* file's size.
C19_SuffixRejected ==
    \A n \in Numbers :
        (RangeAnswered
           /\ sreq.range = <<BytesUnit \o <<"=", "-">> \o Decimal(n)>>) =>
            sresp.status = 416

\* h is "bytes=", digits, "-", digits, with at least one digit
WellFormed(h) ==
    /\ Len(h) >= 8
    /\ SubSeq(h, 1, 6) = BytesUnit \o <<"=">>
    /\ \E i \in 7..Len(h) :
          /\ h[i] = "-"
          /\ \A k \in (7..Len(h)) \ {i} : IsDigit(h[k])

\* C20 as stated: every header that is not of the form bytes=<start>-<end>
\* with optional digit strings, one of them present, is answered 416.
C20_MalformedRejected ==
    (RangeAnswered /\ Truthy(sreq.range) /\ ~WellFormed(sreq.range[1])) =>
        sresp.status = 416

\* C21 as stated: every 206 response of the Range Streamer has a range with
\* 0 <= start <= end < total and a Content-Length of at least 1.
C21_RangeWithinFile ==
    (RangeAnswered /\ sresp.status = 206) =>
        /\ 0 <= sresp.content_range[1]
        /\ sresp.content_range[1] <= sresp.content_range[2]
        /\ sresp.content_range[2] < sresp.content_range[3]
        /\ sresp.content_length[1] >= 1

\* C22 as stated: whenever the temp directory of a job exists, the status
\* of the job is queued, downloading or processing.
C22_TempOnlyWhileLive ==
    \A j \in Jobs :
        (Created(j) /\ temp[job[j].temp_dir].exists) =>
            job[j].status \in Live

\* C23 as stated: no job has a terminal status while its transfer is still
\* in the session.
C23_StoppedBeforeTerminal ==
    \A j \in Jobs :
        job[j].status \in Terminal => engine[j] \notin {"active", "seeding"}

\* C24 as stated: a job whose transfer reported seeding before the first
\* cancel() call never gets the status cancelled.
C24_CompletedNotCancelled ==
    \A j \in Jobs :
        hist[j].cancelSeeding => job[j].status # "cancelled"

\* C25: the cancel flag, once set, stays set, so that a second cancel()
\* changes nothing; and the worker enters a poll tick only from the loop
\* test and only with the flag not set, so that after a cancel() it ends at
\* most the tick it is in before it leaves the loop.
C25_CancelBoundsPolling ==
    [][\A j \in Jobs :
          /\ job[j].cancel_requested =>
                 /\ job'[j].cancel_requested
                 /\ hist'[j].cancelAt = hist[j].cancelAt
          /\ (wpc'[j] = "poll" /\ wpc[j] # "poll") =>
                 (wpc[j] = "loop" /\ ~job[j].cancel_requested)
          /\ (wpc[j] = "poll" /\ wpc'[j] # "poll") =>
                 wpc'[j] \in {"loop", "stop", "except"}
          /\ (wpc[j] = "loop" /\ wpc'[j] # "loop"
                 /\ job[j].cancel_requested) => wpc'[j] = "stop"]_vars

\* a worker whose job was cancelled during a poll tick has left the loop
\* after that tick, with the transfer not complete
C25_Witness ==
    \E j \in Jobs :
        /\ wpc[j] = "stop"
        /\ job[j].cancel_requested
        /\ hist[j].cancelAt = "before_check"
        /\ job[j].elapsed_seconds = 1
        /\ engine[j] = "active"

\* C26 as stated: after every poll tick eta_seconds is remainingBytes /
\* download_rate when the rate is above 0, also for 0 remaining bytes, and
\* None exactly when it is not.
C26_EtaFromRate ==
    [][\A j \in Jobs :
          (wpc[j] = "poll" /\ wpc'[j] \in {"loop", "stop"}) =>
              IF job'[j].download_rate > 0
              THEN job'[j].eta_seconds =
                       <<Max(0, TotalWanted - job'[j].progress),
                         job'[j].download_rate>>
              ELSE job'[j].eta_seconds = <<>>]_vars

\* C27: a step of the worker of a job that has failed or fails in it (its
\* status is "error" after the step: the except clause, its cleanup, the
\* notification and the manager's callback) changes no field of another
\* job, nothing of another job's worker, transfer or temp directory, and
\* removes no other job from the registry; and a worker that has ended does
\* not hold the manager's lock, so add_job, list_jobs and delete_job can
\* still take it.
C27_FailureIsolated ==
    [][\A j \in Jobs :
          /\ (wpc'[j] # wpc[j] /\ job'[j].status = "error") =>
                 /\ \A i \in Jobs \ {j} :
                        /\ job'[i] = job[i]
                        /\ wpc'[i] = wpc[i]
                        /\ engine'[i] = engine[i]
                        /\ Created(i) =>
                               temp'[job[i].temp_dir] = temp[job[i].temp_dir]
                 /\ \A k \in DOMAIN jobs :
                        jobs[k] # j => (k \in DOMAIN jobs' /\ jobs'[k] = jobs[k])
          /\ (wpc'[j] = "done" /\ wpc[j] # "done") => lock' # Worker(j)]_vars

\* one job has failed and its worker has ended, while another job is still
\* registered and past its download, in processing
C27_Witness ==
    \E j \in Jobs : \E i \in Jobs \ {j} :
        /\ Ended(j)
        /\ job[j].status = "error"
        /\ job[j].error = "Unexpected error"
        /\ InRegistry(i)
        /\ job[i].status = "processing"

\* C28 as stated: a delete_job that found its job in the registry always
\* comes to its return: it ends by returning True, with the job's
\* cancellation requested and the job's temp directory removed by the
\* force-cleanup, whatever the worker does meanwhile.
C28_DeleteAlwaysReturns ==
    [][\A d \in Deleters :
          (dpc[d] \in {"cancel", "join", "cleanup"} /\ dpc'[d] = "idle") =>
              /\ dpc[d] = "cleanup"
              /\ dRet'[d] = "True"
              /\ job'[dJob[d]].cancel_requested
              /\ ~temp'[job[dJob[d]].temp_dir].exists]_vars

\* C29 as stated: the force_cleanup of delete_job never removes the temp
\* directory of a job whose worker is in the processing state, so that it
\* takes away no allow-listed file that post-processing has still to move.
C29_NoCleanupWhileProcessing ==
    [][\A d \in Deleters :
          (dpc[d] = "cleanup" /\ dpc'[d] = "idle") =>
              ~ /\ job[dJob[d]].status = "processing"
                /\ Allowed(dJob[d], temp[job[dJob[d]].temp_dir].files) # {}
                /\ temp'[job[dJob[d]].temp_dir].files = {}]_vars

\* C30 as stated: whatever the interleaving of the admin requests, the
\* application has one TorrentManager, and the manager a request got from
\* _get_torrent_manager holds every job that a request added and that was
\* neither reaped nor deleted since.
C30_OneManager ==
    /\ Len(managers) <= 1
    /\ \A r \in Requests :
           apc[r] = "view" => managers[mgr[r]] = AllJobIds
====
